---------------------------- MODULE Spec2Model ----------------------------
(***************************************************************************)
(* Model of the Trading Hub page                                           *)
(* (src/frontend/pages/orchestration/trading/app.py).                      *)
(*                                                                         *)
(* The page is a script that the UI framework runs from top to bottom on   *)
(* every user interaction (a "rerun").  Each section of the script and     *)
(* each backend-facing function is one action; pc is the position of the   *)
(* script.  Backend responses and widget inputs are drawn from small sets. *)
(* calls is the sequence of backend requests issued in the current rerun.  *)
(* shown holds the values computed for the display widgets in the current *)
(* rerun; lastResp is the backend response the latest fetch received.      *)
(***************************************************************************)
EXTENDS Integers, Sequences, FiniteSets, TLC

VARIABLES pc, pressed, offered, session_state,
          accounts_list, credentials_dict, candles_connectors,
          connector, trading_pair, form, calls, notices, shown, lastResp, ticked, had_data

vars == <<pc, pressed, offered, session_state,
          accounts_list, credentials_dict, candles_connectors,
          connector, trading_pair, form, calls, notices, shown, lastResp, ticked, had_data>>

(***************************************************************************)
(* Bounds and value domains                                                *)
(***************************************************************************)
MaxOrders == 2

None == "None"

AccountName(i) == IF i = 1 THEN "master_account" ELSE "sub_account"
Accounts == {AccountName(1), AccountName(2)}

Connectors == {"binance", "kucoin"}
\* what the trading pair input holds: a pair other than the initial one, or nothing
TradingPairs == {"ETH-USDT", ""}
CandlesFeeds == {<<>>, <<"binance_feed">>}

\* accounts.list_accounts(): the listed accounts, in the backend's order
AccountLists == {<<>>, <<AccountName(1)>>, <<AccountName(1), AccountName(2)>>}

Cred(c, btc) == [connector_name |-> c, btc |-> btc]
CredLists == {<<>>, <<Cred("binance", TRUE)>>, <<Cred("kucoin", FALSE), Cred("binance", TRUE)>>}

Elems(seq) == {seq[i] : i \in 1..Len(seq)}

\* the outcome of a backend call: it raises, or it returns val
Raised == [raise |-> TRUE, val |-> <<>>]
Returned(v) == [raise |-> FALSE, val |-> v]

ListAccountsOutcomes == {Raised} \cup {Returned(l) : l \in AccountLists}
ListCredentialsOutcomes == {Raised} \cup {Returned(l) : l \in CredLists}

(***************************************************************************)
(* Backend requests                                                        *)
(***************************************************************************)
Call(name) == [name |-> name, account_name |-> "", connector_name |-> "",
               trading_pair |-> "", order_type |-> "", trade_type |-> "",
               amount |-> 0, has_price |-> FALSE, price |-> 0,
               client_order_id |-> ""]

ListCredentialsCall(a) == [Call("list_credentials") EXCEPT !.account_name = a]

(***************************************************************************)
(* get_accounts_and_credentials (lines 39-50)                              *)
(***************************************************************************)
RECURSIVE CredentialsLoop_skip(_, _, _, _, _)
\* a variant that leaves out an account whose list_credentials raises
CredentialsLoop_skip(accs, lc, i, creds, cs) ==
    IF i > Len(accs) THEN [raise |-> FALSE, creds |-> creds, calls |-> cs]
    ELSE LET a == accs[i]
             cs2 == Append(cs, ListCredentialsCall(a))
         IN IF lc[a].raise
            THEN CredentialsLoop_skip(accs, lc, i + 1, creds, cs2)
            ELSE CredentialsLoop_skip(accs, lc, i + 1,
                                      [x \in (DOMAIN creds) \cup {a} |->
                                          IF x = a THEN lc[a].val ELSE creds[x]],
                                      cs2)

RECURSIVE CredentialsLoop(_, _, _, _, _)
\* the for loop of lines 44-46 from position i on; creds is the map built
\* so far, cs the requests issued so far
CredentialsLoop(accs, lc, i, creds, cs) ==
    IF i > Len(accs) THEN [raise |-> FALSE, creds |-> creds, calls |-> cs]
    ELSE LET a == accs[i]
             cs2 == Append(cs, ListCredentialsCall(a))
         IN IF lc[a].raise
            THEN [raise |-> TRUE, creds |-> creds, calls |-> cs2]
            ELSE CredentialsLoop(accs, lc, i + 1,
                                 [x \in (DOMAIN creds) \cup {a} |->
                                     IF x = a THEN lc[a].val ELSE creds[x]],
                                 cs2)

EmptyCredentials == [x \in {} |-> <<>>]

\* a variant that keeps what it has when list_credentials raises
get_accounts_and_credentials_partial(la, lc) ==
    LET first == <<Call("list_accounts")>>
    IN IF la.raise
       THEN [accounts_list |-> <<>>, credentials_list |-> EmptyCredentials, calls |-> first]
       ELSE LET r == CredentialsLoop(la.val, lc, 1, EmptyCredentials, first)
            IN [accounts_list |-> la.val, credentials_list |-> r.creds, calls |-> r.calls]

get_accounts_and_credentials(la, lc) ==
    LET first == <<Call("list_accounts")>>
    IN IF la.raise
       THEN [accounts_list |-> <<>>, credentials_list |-> EmptyCredentials, calls |-> first]
       ELSE LET r == CredentialsLoop(la.val, lc, 1, EmptyCredentials, first)
            IN IF r.raise
               THEN [accounts_list |-> <<>>, credentials_list |-> EmptyCredentials, calls |-> r.calls]
               ELSE [accounts_list |-> la.val, credentials_list |-> r.creds, calls |-> r.calls]

(***************************************************************************)
(* get_candles_connectors (lines 53-59)                                    *)
(***************************************************************************)
CandlesFeedOutcomes == {Raised} \cup {Returned(l) : l \in CandlesFeeds}

get_candles_connectors(o) ==
    [result |-> IF o.raise THEN <<>> ELSE o.val,
     calls |-> <<Call("get_available_candles_feed")>>]

(***************************************************************************)
(* Response shapes of the list endpoints.  A response is a list (items),   *)
(* a dict (status is "absent" when the key is missing, has_data tells      *)
(* whether the "data" key is present) or some other value (None, a string) *)
(***************************************************************************)
ListResp(items) == [shape |-> "list", items |-> items, status |-> "absent",
                    has_data |-> FALSE, data |-> <<>>]
DictResp(status, has_data, data) == [shape |-> "dict", items |-> <<>>, status |-> status,
                                     has_data |-> has_data, data |-> data]
OtherResp == [shape |-> "other", items |-> <<>>, status |-> "absent",
              has_data |-> FALSE, data |-> <<>>]

Statuses == {"absent", "success", "error"}

\* every response shape over the payloads P, and a raised exception
ListOutcomes(P) ==
    {[raise |-> TRUE, val |-> OtherResp], Returned(OtherResp)}
    \cup {Returned(ListResp(p)) : p \in P}
    \cup {Returned(DictResp(s, TRUE, p)) : s \in Statuses, p \in P}
    \cup {Returned(DictResp(s, FALSE, <<>>)) : s \in Statuses}

\* response.get("data", default)
GetData(response, default) == IF response.has_data THEN response.data ELSE default

(***************************************************************************)
(* get_positions (62-74), get_active_orders (77-89),                       *)
(* get_order_history (92-105)                                              *)
(***************************************************************************)
\* a variant that answers a failed request with the last good data
get_positions_stale(o) ==
    [result |-> IF o.raise THEN <<"position">>
                ELSE IF o.val.shape = "list" THEN o.val.items
                ELSE IF o.val.shape = "dict" /\ o.val.status = "success"
                     THEN GetData(o.val, <<>>)
                ELSE <<>>,
     calls |-> <<Call("get_positions")>>]

get_positions(o) ==
    [result |-> IF o.raise THEN <<>>
                ELSE IF o.val.shape = "list" THEN o.val.items
                ELSE IF o.val.shape = "dict" /\ o.val.status = "success"
                     THEN GetData(o.val, <<>>)
                ELSE <<>>,
     calls |-> <<Call("get_positions")>>]

\* a variant that asks again when the request raises
get_active_orders_retry(o) ==
    [result |-> IF o.raise THEN <<>>
                ELSE IF o.val.shape = "list" THEN o.val.items
                ELSE IF o.val.shape = "dict" /\ o.val.status = "success"
                     THEN GetData(o.val, <<>>)
                ELSE <<>>,
     calls |-> IF o.raise THEN <<Call("get_active_orders"), Call("get_active_orders")>>
               ELSE <<Call("get_active_orders")>>]

get_active_orders(o) ==
    [result |-> IF o.raise THEN <<>>
                ELSE IF o.val.shape = "list" THEN o.val.items
                ELSE IF o.val.shape = "dict" /\ o.val.status = "success"
                     THEN GetData(o.val, <<>>)
                ELSE <<>>,
     calls |-> <<Call("get_active_orders")>>]

\* a variant that forgets the status check
get_order_history_nostatus(o) ==
    [result |-> IF o.raise THEN <<>>
                ELSE IF o.val.shape = "list" THEN o.val.items
                ELSE IF o.val.shape = "dict" THEN GetData(o.val, <<>>)
                ELSE <<>>,
     calls |-> <<Call("get_orders")>>]

get_order_history(o) ==
    [result |-> IF o.raise THEN <<>>
                ELSE IF o.val.shape = "list" THEN o.val.items
                ELSE IF o.val.shape = "dict" /\ o.val.status = "success"
                     THEN GetData(o.val, <<>>)
                ELSE <<>>,
     calls |-> <<Call("get_orders")>>]

(***************************************************************************)
(* Price responses.  A price dict is its "status", its "data" and "prices" *)
(* fields (themselves flat dicts of prices) and its remaining entries, a   *)
(* set of <<trading pair, price>>.                                         *)
(***************************************************************************)
EmptyDict == [status |-> "absent", has_data |-> FALSE, data |-> {},
              has_prices |-> FALSE, prices |-> {}, entries |-> {}]
Flat(entries) == [EmptyDict EXCEPT !.entries = entries]

PriceItem(is_dict, has_pair, pair, has_price, price) ==
    [is_dict |-> is_dict, has_pair |-> has_pair, trading_pair |-> pair,
     has_price |-> has_price, price |-> price]

PriceDictResp(d) == [shape |-> "dict", dict |-> d, items |-> <<>>]
PriceListResp(items) == [shape |-> "list", dict |-> EmptyDict, items |-> items]
PriceOtherResp == [shape |-> "other", dict |-> EmptyDict, items |-> <<>>]

RECURSIVE PricesFromList(_, _, _)
\* the dict comprehension of lines 152-153: a later item replaces an
\* earlier one with the same key
PricesFromList(items, i, acc) ==
    IF i > Len(items) THEN acc
    ELSE LET it == items[i]
             k == IF it.has_pair THEN it.trading_pair ELSE "unknown"
             v == IF it.has_price THEN it.price ELSE 0
         IN IF it.is_dict
            THEN PricesFromList(items, i + 1, {e \in acc : e[1] # k} \cup {<<k, v>>})
            ELSE PricesFromList(items, i + 1, acc)

(***************************************************************************)
(* get_market_data (lines 108-165)                                         *)
(***************************************************************************)
CandlesCall(c, tp) == [Call("get_candles") EXCEPT !.connector_name = c, !.trading_pair = tp]
PricesCall(c, tp) == [Call("get_prices") EXCEPT !.connector_name = c, !.trading_pair = tp]

\* lines 113-131
CandlesOf(co) ==
    IF co.raise THEN <<>>
    ELSE IF co.val.shape = "list" THEN co.val.items
    ELSE IF co.val.shape = "dict" /\ co.val.status = "success" THEN GetData(co.val, <<>>)
    ELSE <<>>

\* lines 134-155
PricesOf(po) ==
    IF po.raise THEN EmptyDict
    ELSE IF po.val.shape = "dict"
         THEN IF po.val.dict.status # "absent" /\ po.val.dict.status = "success"
              THEN (IF po.val.dict.has_data THEN Flat(po.val.dict.data) ELSE EmptyDict)
              ELSE IF po.val.dict.has_prices THEN Flat(po.val.dict.prices)
              ELSE po.val.dict
    ELSE IF po.val.shape = "list" THEN Flat(PricesFromList(po.val.items, 1, {}))
    ELSE EmptyDict

\* a variant with one try block around both requests
get_market_data_onetry(conn, tp, candles_connector, co, po) ==
    LET candles_conn == IF candles_connector # None /\ candles_connector # ""
                        THEN candles_connector ELSE conn
    IN IF co.raise
       THEN [candles |-> <<>>, prices |-> EmptyDict, calls |-> <<CandlesCall(candles_conn, tp)>>]
       ELSE [candles |-> CandlesOf(co),
             prices |-> PricesOf(po),
             calls |-> <<CandlesCall(candles_conn, tp), PricesCall(conn, tp)>>]

get_market_data(conn, tp, candles_connector, co, po) ==
    LET candles_conn == IF candles_connector # None /\ candles_connector # ""
                        THEN candles_connector ELSE conn
    IN [candles |-> CandlesOf(co),
        prices |-> PricesOf(po),
        calls |-> <<CandlesCall(candles_conn, tp), PricesCall(conn, tp)>>]

(***************************************************************************)
(* place_order (lines 168-180) and cancel_order (lines 183-199)            *)
(***************************************************************************)
\* what trading.place_order / trading.cancel_order may do: raise (an answer
\* that is not a dict raises inside the try block as well), or answer with
\* a status
ActionOutcomes == {"raise", "success", "error"}

\* a variant that reads the positions before it submits the order
place_order_after_positions(order_data, o) ==
    [result |-> (o = "success"),
     calls |-> <<Call("get_positions"), order_data>>]

place_order(order_data, o) ==
    [result |-> (o = "success"),
     calls |-> <<order_data>>]

CancelCall(account_name, connector_name, order_id) ==
    [Call("cancel_order") EXCEPT !.account_name = account_name,
                                 !.connector_name = connector_name,
                                 !.client_order_id = order_id]

cancel_order(account_name, connector_name, order_id, o) ==
    [result |-> (o = "success"),
     calls |-> <<CancelCall(account_name, connector_name, order_id)>>]

(***************************************************************************)
(* get_balances (lines 590-617)                                            *)
(***************************************************************************)
AccountIndex(a) == CHOOSE i \in 1..2 : AccountName(i) = a

TokenInfo(a) == [exchange |-> "binance", token |-> "USDT", units |-> 10 * AccountIndex(a),
                 available_units |-> AccountIndex(a), price |-> 1, value |-> 10 * AccountIndex(a)]

\* portfolio.get_state: a map from the accounts in has to their tokens
PortfolioResp(has, empty) ==
    [has |-> has, state |-> [a \in Accounts |-> IF empty THEN <<>> ELSE <<TokenInfo(a)>>]]
PortfolioOutcomes ==
    {[raise |-> TRUE, val |-> PortfolioResp({}, TRUE)],
     Returned(PortfolioResp({}, FALSE)), Returned(PortfolioResp(Accounts, TRUE)),
     Returned(PortfolioResp({AccountName(1)}, FALSE)), Returned(PortfolioResp(Accounts, FALSE))}

BalanceRow(t) == [exchange |-> t.exchange, token |-> t.token, total |-> t.units,
                  available |-> t.available_units, price |-> t.price, value |-> t.value]

get_balances(selected_account, o) ==
    IF selected_account = None
    THEN [result |-> <<>>, calls |-> <<>>]
    ELSE [result |-> IF o.raise THEN <<>>
                     ELSE IF selected_account \in o.val.has
                          THEN [i \in 1..Len(o.val.state[selected_account]) |->
                                   BalanceRow(o.val.state[selected_account][i])]
                          ELSE <<>>,
          calls |-> <<[Call("get_state") EXCEPT !.account_name = selected_account]>>]

(***************************************************************************)
(* Payloads of the page's fetches                                          *)
(***************************************************************************)
CandlePayloads == {<<>>, <<"candle">>}
PositionPayloads == {<<>>, <<"position">>}
HistoryPayloads == {<<>>, <<"filled_order">>}

OrderId(i) == IF i = 1 THEN "oid-1" ELSE IF i = 2 THEN "oid-2" ELSE "oid-3"
\* a row of the active orders table; has_cancel tells whether the row
\* carries the "cancel" column
Order(i, has_cancel) ==
    [account_name |-> AccountName(((i - 1) % 2) + 1),
     connector_name |-> IF i % 2 = 1 THEN "binance" ELSE "kucoin",
     client_order_id |-> OrderId(i),
     has_cancel |-> has_cancel]
OrderRows(n, has_cancel) == [i \in 1..n |-> Order(n + 1 - i, has_cancel)]
OrderPayloads == {<<>>, OrderRows(MaxOrders, TRUE), OrderRows(1, FALSE)}

PricePayloads == {{}, {<<"BTC-USDT", 100>>}}
PriceDicts ==
    {[status |-> s, has_data |-> hd, data |-> IF hd THEN d ELSE {},
      has_prices |-> hp, prices |-> IF hp THEN {<<"BTC-USDT", 200>>} ELSE {},
      entries |-> e] :
        s \in Statuses, hd \in BOOLEAN, hp \in BOOLEAN, d \in PricePayloads,
        e \in {{}, {<<"BTC-USDT", 300>>}}}
PriceLists == {<<>>,
               <<PriceItem(TRUE, TRUE, "BTC-USDT", TRUE, 100), PriceItem(TRUE, TRUE, "BTC-USDT", TRUE, 400)>>,
               <<PriceItem(TRUE, FALSE, "", FALSE, 0), PriceItem(FALSE, FALSE, "", FALSE, 0)>>}
PriceOutcomes ==
    {[raise |-> TRUE, val |-> PriceOtherResp], Returned(PriceOtherResp)}
    \cup {Returned(PriceDictResp(d)) : d \in PriceDicts}
    \cup {Returned(PriceListResp(l)) : l \in PriceLists}

(***************************************************************************)
(* The page                                                                *)
(***************************************************************************)
NoForm == [order_type |-> "", side |-> "", amount |-> 0, has_price |-> FALSE, price |-> 0]
NoResp == [fetch |-> "none"]

\* every rerun renders the page anew
NothingShown == [candles |-> <<>>, prices |-> EmptyDict, positions |-> <<>>,
                 orders |-> <<>>, order_history |-> <<>>, balances |-> <<>>]

\* lines 19-33
Init ==
    /\ pc = "idle"
    /\ pressed = "none"
    /\ offered = {}
    /\ session_state = [selected_account |-> None,
                        selected_connector |-> None,
                        selected_market |-> [connector |-> "binance_perpetual",
                                             trading_pair |-> "BTC-USDT"],
                        candles_connector |-> None,
                        last_fetch_time |-> None]
    /\ accounts_list = <<>>
    /\ credentials_dict = EmptyCredentials
    /\ candles_connectors = <<>>
    /\ connector = None
    /\ trading_pair = ""
    /\ form = NoForm
    /\ calls = <<>>
    /\ notices = {}
    /\ shown = NothingShown
    /\ lastResp = NoResp
    /\ ticked = {}
    /\ had_data = FALSE

\* a user interaction, or a pending st.rerun(), starts the script again
Rerun ==
    /\ pc \in {"idle", "rerun"}
    /\ pressed' \in (IF pc = "rerun" THEN {"none"} ELSE {"none"} \cup offered)
    /\ pc' = "accounts"
    /\ offered' = {}
    /\ accounts_list' = <<>>
    /\ credentials_dict' = EmptyCredentials
    /\ candles_connectors' = <<>>
    /\ connector' = None
    /\ trading_pair' = ""
    /\ form' = NoForm
    /\ calls' = <<>>
    /\ notices' = {}
    /\ shown' = NothingShown
    /\ lastResp' = NoResp
    /\ ticked' = {}
    /\ had_data' = (had_data \/ shown # NothingShown)
    /\ UNCHANGED session_state

\* line 377
FetchAccounts ==
    /\ pc = "accounts"
    /\ \E la \in ListAccountsOutcomes :
       \E lc \in [Accounts -> ListCredentialsOutcomes] :
          \* the answers for the accounts that are not asked about do not matter
          /\ \A a \in Accounts \ Elems(la.val) : lc[a] = Raised
          /\ LET r == get_accounts_and_credentials(la, lc)
             IN /\ accounts_list' = r.accounts_list
                /\ credentials_dict' = r.credentials_list
                /\ calls' = calls \o r.calls
                /\ lastResp' = [fetch |-> "accounts", la |-> la, lc |-> lc]
    /\ pc' = "candles_feed"
    /\ UNCHANGED <<pressed, offered, session_state, candles_connectors, connector,
                   trading_pair, form, notices, shown, ticked, had_data>>

\* line 378
FetchCandlesConnectors ==
    /\ pc = "candles_feed"
    /\ \E o \in CandlesFeedOutcomes :
          LET r == get_candles_connectors(o)
          IN /\ candles_connectors' = r.result
             /\ calls' = calls \o r.calls
    /\ pc' = "col_account"
    /\ UNCHANGED <<pressed, offered, session_state, accounts_list, credentials_dict,
                   connector, trading_pair, form, notices, shown, lastResp, ticked, had_data>>

\* lines 386-402
AccountSelection ==
    /\ pc = "col_account"
    /\ IF accounts_list # <<>>
       THEN /\ \E selected_account \in Elems(accounts_list) :
                  session_state' = [session_state EXCEPT !.selected_account = selected_account]
            /\ pc' = "col_connector"
            /\ UNCHANGED notices
       ELSE /\ notices' = notices \cup {"No accounts found"}
            /\ pc' = "idle"
            /\ UNCHANGED session_state
    /\ UNCHANGED <<pressed, offered, accounts_list, credentials_dict, candles_connectors,
                   connector, trading_pair, form, calls, shown, lastResp, ticked, had_data>>

\* credentials_dict.get(account)
GetCredentials(creds, account) == IF account \in DOMAIN creds THEN creds[account] ELSE <<>>

IsBtc(cred) == cred.btc
\* lines 406-415: the credential the exchange selector starts on
DefaultCred(credentials) ==
    LET btc_credentials == SelectSeq(credentials, IsBtc)
    IN IF btc_credentials # <<>> THEN btc_credentials[1] ELSE credentials[1]

ConnectorNames(credentials) == {credentials[i].connector_name : i \in 1..Len(credentials)}

\* a variant that stores the selection without testing it
UpdateSelectedMarket_unguarded(selected_market, conn, tp) ==
    [connector |-> conn, trading_pair |-> tp]

\* lines 439-441: the selection replaces the selected market when the
\* connector and the trading pair are both truthy
UpdateSelectedMarket(selected_market, conn, tp) ==
    IF conn # None /\ conn # "" /\ tp # ""
    THEN [connector |-> conn, trading_pair |-> tp]
    ELSE selected_market

\* lines 404-441: exchange selector, trading pair input, selected market
ConnectorSelection ==
    /\ pc = "col_connector"
    /\ LET credentials == GetCredentials(credentials_dict, session_state.selected_account)
       IN \E tp \in TradingPairs :
          /\ trading_pair' = tp
          /\ IF session_state.selected_account # None /\ credentials # <<>>
             THEN \E c \in {DefaultCred(credentials).connector_name} \cup ConnectorNames(credentials) :
                     /\ connector' = c
                     /\ session_state' =
                           [session_state EXCEPT
                               !.selected_connector = c,
                               !.selected_market = UpdateSelectedMarket(@, c, tp)]
                     /\ UNCHANGED notices
             ELSE /\ connector' = None
                  /\ notices' = notices \cup {"No credentials available"}
                  /\ session_state' =
                        [session_state EXCEPT
                            !.selected_market = UpdateSelectedMarket(@, None, tp)]
    /\ pc' = "chart"
    /\ UNCHANGED <<pressed, offered, accounts_list, credentials_dict, candles_connectors,
                   form, calls, shown, lastResp, ticked, had_data>>

\* a variant in which the Place Order button stays pressed
ButtonPressed_stuck(name) == pressed = name \/ name = "place"

\* st.button(...): true in the rerun that the press of that button caused
ButtonPressed(name) == pressed = name

\* lines 443-483: candles source selector and the Refresh Data button
ChartSettings ==
    /\ pc = "chart"
    /\ \E selected_candles \in {"Same as trading"} \cup Elems(candles_connectors) :
          session_state' = [session_state EXCEPT !.candles_connector =
                               IF candles_connectors # <<>> /\ selected_candles # "Same as trading"
                               THEN selected_candles ELSE None]
    /\ offered' = offered \cup {"refresh"}
    /\ pc' = IF ButtonPressed("refresh") THEN "rerun" ELSE "trade"
    /\ UNCHANGED <<pressed, accounts_list, credentials_dict, candles_connectors, connector,
                   trading_pair, form, calls, notices, shown, lastResp, ticked, had_data>>

OrderTypes == {"market", "limit"}
Sides == {"buy", "sell"}
Amounts == {0, 1}
Prices == {0, 1}

\* a variant that tests the price against None instead of its truth value
OrderData_price_not_none(ss, order_type, side, amount, has_price, price) ==
    LET with_price == order_type = "limit" /\ has_price
    IN [Call("place_order") EXCEPT
           !.account_name = ss.selected_account,
           !.connector_name = ss.selected_connector,
           !.trading_pair = ss.selected_market.trading_pair,
           !.order_type = order_type,
           !.trade_type = side,
           !.amount = amount,
           !.has_price = with_price,
           !.price = IF with_price THEN price ELSE 0]

\* lines 710-719; has_price tells whether the price input exists (limit)
OrderData(ss, order_type, side, amount, has_price, price) ==
    LET with_price == order_type = "limit" /\ has_price /\ price # 0
    IN [Call("place_order") EXCEPT
           !.account_name = ss.selected_account,
           !.connector_name = ss.selected_connector,
           !.trading_pair = ss.selected_market.trading_pair,
           !.order_type = order_type,
           !.trade_type = side,
           !.amount = amount,
           !.has_price = with_price,
           !.price = IF with_price THEN price ELSE 0]

\* lines 665-729: the order form and the Place Order button
TradeExecution ==
    /\ pc = "trade"
    /\ IF session_state.selected_account # None /\ session_state.selected_connector # None
       THEN /\ offered' = offered \cup {"place"}
            /\ IF ButtonPressed("place")
               THEN \E order_type \in OrderTypes, side \in Sides, amount \in Amounts, price \in Prices :
                       /\ (order_type = "market" => price = 0)
                       /\ form' = [order_type |-> order_type, side |-> side, amount |-> amount,
                                   has_price |-> (order_type = "limit"), price |-> price]
                       /\ IF amount > 0
                          THEN /\ \E o \in ActionOutcomes :
                                     calls' = calls \o
                                        place_order(OrderData(session_state, order_type, side, amount,
                                                              order_type = "limit", price), o).calls
                               /\ UNCHANGED notices
                          ELSE /\ notices' = notices \cup {"Please enter a valid amount"}
                               /\ UNCHANGED calls
               ELSE UNCHANGED <<form, calls, notices>>
       ELSE /\ notices' = notices \cup {"Please select an account and exchange to execute trades"}
            /\ UNCHANGED <<offered, form, calls>>
    /\ pc' = "market"
    /\ UNCHANGED <<pressed, session_state, accounts_list, credentials_dict, candles_connectors,
                   connector, trading_pair, shown, lastResp, ticked, had_data>>

\* the responses the page is run against
PageListOutcomes(P) ==
    {[raise |-> TRUE, val |-> OtherResp]}
    \cup {Returned(ListResp(p)) : p \in P \ {<<>>}}
    \cup {Returned(DictResp(st, TRUE, p)) : st \in {"success", "error"}, p \in P \ {<<>>}}
PagePriceOutcomes ==
    {[raise |-> TRUE, val |-> PriceOtherResp],
     Returned(PriceDictResp([EmptyDict EXCEPT !.status = "success", !.has_data = TRUE,
                                              !.data = {<<"BTC-USDT", 100>>}])),
     Returned(PriceDictResp([EmptyDict EXCEPT !.has_prices = TRUE,
                                              !.prices = {<<"BTC-USDT", 100>>}])),
     Returned(PriceListResp(<<>>))}

\* lines 489-533 of show_trading_data: market data, price and chart.  The
\* script's selection and form variables are not read from here on.
ShowMarketData ==
    /\ pc = "market"
    /\ LET conn == session_state.selected_market.connector
           tp == session_state.selected_market.trading_pair
       IN IF conn = None \/ conn = "" \/ tp = ""
          THEN /\ notices' = notices \cup {"Please select an account and trading pair"}
               /\ pc' = "idle"
               /\ UNCHANGED <<calls, shown, lastResp>>
          ELSE /\ \E co \in PageListOutcomes(CandlePayloads), po \in PagePriceOutcomes :
                     LET r == get_market_data(conn, tp, session_state.candles_connector, co, po)
                     IN /\ calls' = calls \o r.calls
                        /\ shown' = [shown EXCEPT !.candles = r.candles, !.prices = r.prices]
                        /\ lastResp' = [fetch |-> "market", candles |-> co, prices |-> po]
               /\ pc' = "positions"
               /\ UNCHANGED notices
    /\ accounts_list' = <<>>
    /\ credentials_dict' = EmptyCredentials
    /\ candles_connectors' = <<>>
    /\ connector' = None
    /\ trading_pair' = ""
    /\ form' = NoForm
    /\ session_state' = [session_state EXCEPT !.last_fetch_time =
                             IF session_state.selected_market.connector \in {None, ""}
                                \/ session_state.selected_market.trading_pair = ""
                             THEN @ ELSE "set"]
    /\ UNCHANGED <<pressed, offered, ticked, had_data>>

\* line 539
FetchPositions ==
    /\ pc = "positions"
    /\ \E o \in PageListOutcomes(PositionPayloads) :
          LET r == get_positions(o)
          IN /\ calls' = calls \o r.calls
             /\ shown' = [shown EXCEPT !.positions = r.result]
             /\ lastResp' = [fetch |-> "positions", o |-> o]
    /\ pc' = "orders"
    /\ UNCHANGED <<pressed, offered, session_state, accounts_list, credentials_dict,
                   candles_connectors, connector, trading_pair, form, notices, ticked, had_data>>

\* line 540
FetchActiveOrders ==
    /\ pc = "orders"
    /\ \E o \in PageListOutcomes(OrderPayloads) :
          LET r == get_active_orders(o)
          IN /\ calls' = calls \o r.calls
             /\ shown' = [shown EXCEPT !.orders = r.result]
             /\ lastResp' = [fetch |-> "orders", o |-> o]
    /\ pc' = "history"
    /\ UNCHANGED <<pressed, offered, session_state, accounts_list, credentials_dict,
                   candles_connectors, connector, trading_pair, form, notices, ticked, had_data>>

\* line 541
FetchOrderHistory ==
    /\ pc = "history"
    /\ \E o \in PageListOutcomes(HistoryPayloads) :
          LET r == get_order_history(o)
          IN /\ calls' = calls \o r.calls
             /\ shown' = [shown EXCEPT !.order_history = r.result]
             /\ lastResp' = [fetch |-> "order_history", o |-> o]
    /\ pc' = "tab_balances"
    /\ UNCHANGED <<pressed, offered, session_state, accounts_list, credentials_dict,
                   candles_connectors, connector, trading_pair, form, notices, ticked, had_data>>

\* lines 546-547: render_balances_table (620-662)
RenderBalances ==
    /\ pc = "tab_balances"
    /\ \E o \in PortfolioOutcomes :
          LET r == get_balances(session_state.selected_account, o)
          IN /\ calls' = calls \o r.calls
             /\ shown' = [shown EXCEPT !.balances = r.result]
             /\ lastResp' = [fetch |-> "balances", o |-> o]
    /\ pc' = "tab_orders"
    /\ UNCHANGED <<pressed, offered, session_state, accounts_list, credentials_dict,
                   candles_connectors, connector, trading_pair, form, notices, ticked, had_data>>

RECURSIVE CancelLoop_stop(_, _, _, _)
\* a variant that gives up at the first cancel that does not succeed
CancelLoop_stop(orders, selected, outs, i) ==
    IF i > Len(orders) THEN <<>>
    ELSE IF i \in selected
         THEN cancel_order(orders[i].account_name, orders[i].connector_name,
                           orders[i].client_order_id, outs[i]).calls
              \o (IF outs[i] = "success" THEN CancelLoop_stop(orders, selected, outs, i + 1)
                  ELSE <<>>)
         ELSE CancelLoop_stop(orders, selected, outs, i + 1)

RECURSIVE CancelLoop(_, _, _, _)
\* lines 363-368: one cancel_order per selected row, in table order; outs
\* gives the backend's answer for each row
CancelLoop(orders, selected, outs, i) ==
    IF i > Len(orders) THEN <<>>
    ELSE (IF i \in selected
          THEN cancel_order(orders[i].account_name, orders[i].connector_name,
                            orders[i].client_order_id, outs[i]).calls
          ELSE <<>>)
         \o CancelLoop(orders, selected, outs, i + 1)

\* lines 548-553: render_positions_table, render_orders_table (319-369) with
\* the Cancel Selected button, render_order_history_table; the script ends
RenderOrders ==
    /\ pc = "tab_orders"
    /\ lastResp' = NoResp
    /\ IF shown.orders = <<>>
       THEN /\ pc' = "idle"
            /\ UNCHANGED <<offered, calls, ticked, had_data>>
       ELSE \E selected \in SUBSET {i \in 1..Len(shown.orders) : shown.orders[i].has_cancel} :
               /\ ticked' = selected
               /\ IF selected # {}
                  THEN /\ offered' = offered \cup {"cancel"}
                       /\ IF ButtonPressed("cancel")
                          THEN /\ \E outs \in [1..Len(shown.orders) -> ActionOutcomes] :
                                     \* rows that are not ticked get no request
                                     /\ \A i \in 1..Len(shown.orders) :
                                           i \notin selected => outs[i] = "success"
                                     /\ calls' = calls \o CancelLoop(shown.orders, selected, outs, 1)
                               /\ pc' = "rerun"
                          ELSE /\ pc' = "idle"
                               /\ UNCHANGED calls
                  ELSE /\ pc' = "idle"
                       /\ UNCHANGED <<offered, calls>>
    /\ UNCHANGED <<pressed, session_state, accounts_list, credentials_dict,
                   candles_connectors, connector, trading_pair, form, notices, shown,
                   had_data>>

Next ==
    \/ Rerun
    \/ FetchAccounts
    \/ FetchCandlesConnectors
    \/ AccountSelection
    \/ ConnectorSelection
    \/ ChartSettings
    \/ TradeExecution
    \/ ShowMarketData
    \/ FetchPositions
    \/ FetchActiveOrders
    \/ FetchOrderHistory
    \/ RenderBalances
    \/ RenderOrders

Spec == Init /\ [][Next]_vars


(***************************************************************************)
(* The fetch functions on their own: the response is drawn when the        *)
(* function is entered, and the function is applied to it.                 *)
(***************************************************************************)
FetchInput(r) ==
    \/ \E o \in ListOutcomes(PositionPayloads) : r = [fetch |-> "positions", o |-> o]
    \/ \E o \in ListOutcomes(OrderPayloads) : r = [fetch |-> "orders", o |-> o]
    \/ \E o \in ListOutcomes(HistoryPayloads) : r = [fetch |-> "order_history", o |-> o]
    \/ \E co \in ListOutcomes(CandlePayloads), po \in PriceOutcomes :
          r = [fetch |-> "market", candles |-> co, prices |-> po]
    \/ \E la \in ListAccountsOutcomes, lc \in [Accounts -> ListCredentialsOutcomes] :
          r = [fetch |-> "accounts", la |-> la, lc |-> lc]

InitFetch ==
    /\ pc = "call"
    /\ pressed = "none"
    /\ offered = {}
    /\ \E m \in {[connector |-> "binance_perpetual", trading_pair |-> "BTC-USDT"],
                 [connector |-> "kucoin", trading_pair |-> "ETH-USDT"]},
          cc \in {None, "binance_feed"} :
          session_state = [selected_account |-> None, selected_connector |-> None,
                           selected_market |-> m, candles_connector |-> cc,
                           last_fetch_time |-> None]
    /\ accounts_list = <<>>
    /\ credentials_dict = EmptyCredentials
    /\ candles_connectors = <<>>
    /\ connector = None
    /\ trading_pair = ""
    /\ form = NoForm
    /\ calls = <<>>
    /\ notices = {}
    /\ shown = NothingShown
    /\ FetchInput(lastResp)
    /\ ticked = {}
    /\ had_data = FALSE

CallGetPositions ==
    /\ pc = "call" /\ lastResp.fetch = "positions"
    /\ LET r == get_positions(lastResp.o)
       IN /\ shown' = [shown EXCEPT !.positions = r.result]
          /\ calls' = calls \o r.calls
    /\ pc' = "returned"
    /\ UNCHANGED <<pressed, offered, session_state, accounts_list, credentials_dict,
                   candles_connectors, connector, trading_pair, form, notices, lastResp,
                   ticked, had_data>>

CallGetActiveOrders ==
    /\ pc = "call" /\ lastResp.fetch = "orders"
    /\ LET r == get_active_orders(lastResp.o)
       IN /\ shown' = [shown EXCEPT !.orders = r.result]
          /\ calls' = calls \o r.calls
    /\ pc' = "returned"
    /\ UNCHANGED <<pressed, offered, session_state, accounts_list, credentials_dict,
                   candles_connectors, connector, trading_pair, form, notices, lastResp,
                   ticked, had_data>>

CallGetOrderHistory ==
    /\ pc = "call" /\ lastResp.fetch = "order_history"
    /\ LET r == get_order_history(lastResp.o)
       IN /\ shown' = [shown EXCEPT !.order_history = r.result]
          /\ calls' = calls \o r.calls
    /\ pc' = "returned"
    /\ UNCHANGED <<pressed, offered, session_state, accounts_list, credentials_dict,
                   candles_connectors, connector, trading_pair, form, notices, lastResp,
                   ticked, had_data>>

CallGetMarketData ==
    /\ pc = "call" /\ lastResp.fetch = "market"
    /\ LET r == get_market_data(session_state.selected_market.connector,
                                session_state.selected_market.trading_pair,
                                session_state.candles_connector,
                                lastResp.candles, lastResp.prices)
       IN /\ shown' = [shown EXCEPT !.candles = r.candles, !.prices = r.prices]
          /\ calls' = calls \o r.calls
    /\ pc' = "returned"
    /\ session_state' = [session_state EXCEPT !.last_fetch_time = "set"]
    /\ UNCHANGED <<pressed, offered, accounts_list, credentials_dict,
                   candles_connectors, connector, trading_pair, form, notices, lastResp,
                   ticked, had_data>>

CallGetAccountsAndCredentials ==
    /\ pc = "call" /\ lastResp.fetch = "accounts"
    /\ LET r == get_accounts_and_credentials(lastResp.la, lastResp.lc)
       IN /\ accounts_list' = r.accounts_list
          /\ credentials_dict' = r.credentials_list
          /\ calls' = calls \o r.calls
    /\ pc' = "returned"
    /\ UNCHANGED <<pressed, offered, session_state, candles_connectors, connector,
                   trading_pair, form, notices, shown, lastResp, ticked, had_data>>

NextFetch ==
    \/ CallGetAccountsAndCredentials
    \/ CallGetPositions
    \/ CallGetActiveOrders
    \/ CallGetOrderHistory
    \/ CallGetMarketData

SpecFetch == InitFetch /\ [][NextFetch]_vars

(***************************************************************************)
(* Properties                                                              *)
(***************************************************************************)
\* the response of a list endpoint that the function under call received
Resp == lastResp.o.val

\* the value the called list function returned
Result ==
    IF lastResp.fetch = "positions" THEN shown.positions
    ELSE IF lastResp.fetch = "orders" THEN shown.orders
    ELSE shown.order_history

ListFetches == {"positions", "orders", "order_history"}

\* C1: get_positions, get_active_orders and get_order_history always return:
\* the response itself when it is a list, its "data" field (or [] when the
\* field is absent) when it is a dict whose status is "success", [] for
\* every other response and [] when the backend call raises; in each case
\* the function returns to its caller.
C1_Normalised ==
    (lastResp.fetch \in ListFetches /\ pc = "returned") =>
            /\ lastResp.o.raise => Result = <<>>
            /\ (~lastResp.o.raise /\ Resp.shape = "list") => Result = Resp.items
            /\ (~lastResp.o.raise /\ Resp.shape = "dict" /\ Resp.status = "success" /\ Resp.has_data)
                  => Result = Resp.data
            /\ (~lastResp.o.raise /\ Resp.shape = "dict" /\ Resp.status = "success" /\ ~Resp.has_data)
                  => Result = <<>>
            /\ (~lastResp.o.raise /\ Resp.shape = "dict" /\ Resp.status # "success") => Result = <<>>
            /\ (~lastResp.o.raise /\ Resp.shape = "other") => Result = <<>>

C1_Witness ==
    /\ pc = "returned" /\ lastResp.fetch = "orders"
    /\ ~lastResp.o.raise /\ Resp.shape = "dict" /\ Resp.status = "success"
    /\ Resp.has_data /\ Resp.data # <<>> /\ shown.orders = Resp.data


CandlesResp == lastResp.candles.val
PricesResp == lastResp.prices.val

\* C2: every value get_market_data returns is the data of a successful
\* response or the empty fallback; a dict that carries a status other than
\* "success" yields the fallback, for candles and for prices alike.
C2_SuccessOrFallback ==
    (lastResp.fetch = "market" /\ pc = "returned") =>
        /\ (~lastResp.candles.raise /\ CandlesResp.shape = "dict"
              /\ CandlesResp.status \notin {"absent", "success"}) => shown.candles = <<>>
        /\ (~lastResp.prices.raise /\ PricesResp.shape = "dict"
              /\ PricesResp.dict.status \notin {"absent", "success"}) => shown.prices = EmptyDict

\* the connector the candles request must be addressed to
ExpectedCandlesConnector ==
    IF session_state.candles_connector # None
    THEN session_state.candles_connector
    ELSE session_state.selected_market.connector

CandlesFailed ==
    \/ lastResp.candles.raise
    \/ CandlesResp.shape = "other"
    \/ CandlesResp.shape = "dict" /\ CandlesResp.status # "success"

\* the prices request raised or returned a value that is neither dict nor list
PricesFailed ==
    \/ lastResp.prices.raise
    \/ PricesResp.shape = "other"

\* C10: in get_market_data the prices request is always issued, to the
\* trading connector, after the candles request, which goes to
\* candles_connector when one is set and to the trading connector
\* otherwise; a candles failure returns ([], prices) and a prices failure
\* returns (candles, {}).
C10_Independent ==
    (lastResp.fetch = "market" /\ pc = "returned") =>
        /\ calls = <<CandlesCall(ExpectedCandlesConnector,
                                 session_state.selected_market.trading_pair),
                     PricesCall(session_state.selected_market.connector,
                                session_state.selected_market.trading_pair)>>
        /\ CandlesFailed => shown.candles = <<>>
        /\ PricesFailed => shown.prices = EmptyDict
        \* the prices of a well-formed answer do not depend on the candles
        /\ (~lastResp.prices.raise /\ PricesResp.shape = "dict"
              /\ PricesResp.dict.status = "success" /\ PricesResp.dict.has_data)
              => shown.prices = Flat(PricesResp.dict.data)
        /\ (~lastResp.prices.raise /\ PricesResp.shape = "dict"
              /\ PricesResp.dict.status = "absent" /\ PricesResp.dict.has_prices)
              => shown.prices = Flat(PricesResp.dict.prices)
        /\ (~lastResp.prices.raise /\ PricesResp.shape = "dict"
              /\ PricesResp.dict.status = "absent" /\ ~PricesResp.dict.has_prices)
              => shown.prices = PricesResp.dict
        \* the candles of a well-formed answer do not depend on the prices
        /\ (~lastResp.candles.raise /\ CandlesResp.shape = "list")
              => shown.candles = CandlesResp.items
        /\ (~lastResp.candles.raise /\ CandlesResp.shape = "dict"
              /\ CandlesResp.status = "success" /\ CandlesResp.has_data)
              => shown.candles = CandlesResp.data

C10_Witness ==
    /\ lastResp.fetch = "market" /\ pc = "returned"
    /\ lastResp.candles.raise
    /\ ~lastResp.prices.raise /\ PricesResp.shape = "dict"
    /\ PricesResp.dict.status = "success" /\ PricesResp.dict.data # {}
    /\ shown.candles = <<>>
    /\ shown.prices = Flat(PricesResp.dict.data)
    /\ session_state.candles_connector # None
    /\ Len(calls) = 2 /\ calls[1].connector_name = session_state.candles_connector


(***************************************************************************)
(* Properties of the page                                                  *)
(***************************************************************************)
CallsNamed(name) == SelectSeq(calls, LAMBDA c : c.name = name)
Count(name) == Len(CallsNamed(name))

\* what a list response carries
Carried(o) == IF o.raise THEN {} ELSE {o.val.items, o.val.data}
\* what a prices response carries
CarriedPrices(o) ==
    IF o.raise THEN {} ELSE {Flat(o.val.dict.data), Flat(o.val.dict.prices), o.val.dict}

\* positions of the script at which show_trading_data has not started
BeforeShow == {"accounts", "candles_feed", "col_account", "col_connector", "chart", "trade", "market"}

\* C3: in every rerun the candles, prices, positions, active orders, order
\* history and balances on display are computed from the responses of that
\* same rerun only: nothing is on display before this rerun's fetch, what
\* is displayed after it is carried by this rerun's response, and the empty
\* fallback is displayed when the fetch raises, also after an earlier rerun
\* displayed data.
C3_NoCaching ==
    /\ pc \in BeforeShow => shown = NothingShown
    /\ pc = "positions" => (shown.positions = <<>> /\ shown.orders = <<>>
                             /\ shown.order_history = <<>> /\ shown.balances = <<>>)
    /\ pc = "orders" => (shown.orders = <<>> /\ shown.order_history = <<>> /\ shown.balances = <<>>)
    /\ pc = "history" => (shown.order_history = <<>> /\ shown.balances = <<>>)
    /\ pc = "tab_balances" => shown.balances = <<>>
    /\ lastResp.fetch = "market" =>
          /\ shown.candles \in {<<>>} \cup Carried(lastResp.candles)
          /\ shown.prices \in {EmptyDict} \cup CarriedPrices(lastResp.prices)
    /\ lastResp.fetch = "positions" => shown.positions \in {<<>>} \cup Carried(lastResp.o)
    /\ lastResp.fetch = "orders" => shown.orders \in {<<>>} \cup Carried(lastResp.o)
    /\ lastResp.fetch = "order_history" => shown.order_history \in {<<>>} \cup Carried(lastResp.o)
    /\ lastResp.fetch = "balances" =>
          LET rows == lastResp.o.val.state[session_state.selected_account]
          IN IF ~lastResp.o.raise /\ session_state.selected_account \in lastResp.o.val.has
             THEN /\ Len(shown.balances) = Len(rows)
                  /\ \A i \in 1..Len(rows) :
                        /\ shown.balances[i].exchange = rows[i].exchange
                        /\ shown.balances[i].token = rows[i].token
                        /\ shown.balances[i].total = rows[i].units
                        /\ shown.balances[i].available = rows[i].available_units
                        /\ shown.balances[i].price = rows[i].price
                        /\ shown.balances[i].value = rows[i].value
             ELSE shown.balances = <<>>

C3_Witness ==
    /\ had_data
    /\ lastResp.fetch = "positions" /\ lastResp.o.raise
    /\ shown.positions = <<>>
    /\ shown.candles # <<>>

ReadOnlyCalls == {"list_accounts", "list_credentials", "get_available_candles_feed",
                  "get_candles", "get_prices", "get_positions", "get_active_orders",
                  "get_orders", "get_state"}
OncePerRerun == ReadOnlyCalls \ {"list_credentials"}

\* C4: within one rerun every read request is issued at most once
\* (list_credentials at most once per account), place_order at most once
\* and only after a press of Place Order, cancel_order at most once per
\* selected order, whatever the requests answer.
C4_NoRetry ==
    /\ \A name \in OncePerRerun : Count(name) <= 1
    /\ \A a \in Accounts :
          Len(SelectSeq(calls, LAMBDA c : c.name = "list_credentials" /\ c.account_name = a)) <= 1
    /\ Count("place_order") <= (IF pressed = "place" THEN 1 ELSE 0)
    /\ Count("cancel_order") <= Cardinality(ticked)
    /\ \A i \in 1..MaxOrders :
          Len(SelectSeq(calls, LAMBDA c : c.name = "cancel_order"
                                           /\ c.client_order_id = OrderId(i))) <= 1

C4_Witness ==
    /\ lastResp.fetch = "orders" /\ lastResp.o.raise
    /\ Count("get_active_orders") = 1
    /\ Count("get_positions") = 1

\* C5: place_order is requested only in a rerun in which Place Order was
\* pressed with amount > 0, cancel_order only in a rerun in which Cancel
\* Selected was pressed with an order ticked; every other request of a
\* rerun is read-only.
C5_MutationsOnlyOnPress ==
    \A i \in 1..Len(calls) :
        /\ calls[i].name = "place_order" => (pressed = "place" /\ calls[i].amount > 0)
        /\ calls[i].name = "cancel_order" => (pressed = "cancel" /\ ticked # {})
        /\ calls[i].name \notin {"place_order", "cancel_order"} => calls[i].name \in ReadOnlyCalls

C5_Witness ==
    /\ pc = "idle" /\ pressed = "none"
    /\ "place" \in offered /\ "cancel" \in offered
    /\ Count("get_state") = 1
    /\ \A i \in 1..Len(calls) : calls[i].name \in ReadOnlyCalls

\* C6: every place_order request carries the account chosen in this rerun
\* and a connector of that account's credentials as fetched in this rerun;
\* when the exchange selector resolves no connector the order form is not
\* offered and no place_order request is made.
C6_OrderMatchesSelection ==
    pc = "market" =>
        /\ \A i \in 1..Len(calls) :
              calls[i].name = "place_order" =>
                 /\ calls[i].account_name = session_state.selected_account
                 /\ calls[i].connector_name \in
                       ConnectorNames(GetCredentials(credentials_dict, session_state.selected_account))
        /\ connector = None => ("place" \notin offered /\ Count("place_order") = 0)

HeaderCalls == {"list_accounts", "list_credentials", "get_available_candles_feed"}

\* the accounts fetch of this rerun yields no accounts
NoAccountsFetched ==
    /\ lastResp.fetch = "accounts"
    /\ \/ lastResp.la.raise
       \/ lastResp.la.val = <<>>
       \/ \E a \in Elems(lastResp.la.val) : lastResp.lc[a].raise

\* C7: when the accounts fetch yields no accounts (empty list, or
\* list_accounts or a list_credentials call raises) the page shows the
\* error and stops: no market, table, portfolio, place or cancel request
\* is made in that rerun and the session variables are left unchanged.
C7_StopsWithoutAccounts ==
    /\ [](NoAccountsFetched =>
             /\ accounts_list = <<>>
             /\ pc \in {"candles_feed", "col_account", "idle"}
             /\ pc = "idle" => "No accounts found" \in notices
             /\ \A i \in 1..Len(calls) : calls[i].name \in HeaderCalls)
    /\ [][(pc \in {"idle", "rerun", "accounts", "candles_feed"} \/ NoAccountsFetched)
             => session_state' = session_state]_vars

C7_Witness ==
    /\ NoAccountsFetched /\ pc = "idle"
    /\ ~lastResp.la.raise /\ Len(lastResp.la.val) = 2
    /\ session_state.selected_connector # None
    /\ "No accounts found" \in notices

\* the ticked rows in table order
TickedInOrder ==
    LET n == Cardinality(ticked)
    IN CHOOSE f \in [1..n -> 1..MaxOrders] :
          /\ {f[k] : k \in 1..n} = ticked
          /\ \A j, k \in 1..n : j < k => f[j] < f[k]

\* C8: when Cancel Selected is pressed with the rows S ticked, one
\* cancel_order request is issued for each row of S, in table order, with
\* that row's account_name, connector_name and client_order_id, whatever
\* the requests answer, and a rerun of the page is then triggered.
C8_CancelEachSelected ==
    (pc \in {"idle", "rerun"} /\ pressed = "cancel" /\ ticked # {}) =>
        /\ pc = "rerun"
        /\ CallsNamed("cancel_order") =
              [k \in 1..Cardinality(ticked) |->
                  [Call("cancel_order") EXCEPT
                      !.account_name = shown.orders[TickedInOrder[k]].account_name,
                      !.connector_name = shown.orders[TickedInOrder[k]].connector_name,
                      !.client_order_id = shown.orders[TickedInOrder[k]].client_order_id]]
        /\ calls[Len(calls)].name = "cancel_order"

C8_Witness ==
    /\ pc = "rerun" /\ pressed = "cancel"
    /\ Cardinality(ticked) = 2
    /\ Count("cancel_order") = 2
    /\ CallsNamed("cancel_order")[1].client_order_id = shown.orders[1].client_order_id

\* C9: when Place Order is pressed, amount 0 makes no request and shows an
\* error; amount > 0 makes exactly one place_order request for the
\* session's selected trading pair, the selected type and side, with a
\* price exactly when the type is "limit" and the entered price is not 0.
C9_PlaceOrderRequest ==
    (pc = "market" /\ pressed = "place") =>
        /\ form # NoForm
        /\ form.amount = 0 =>
              (Count("place_order") = 0 /\ "Please enter a valid amount" \in notices)
        /\ form.amount > 0 =>
              /\ Count("place_order") = 1
              /\ "Please enter a valid amount" \notin notices
              /\ LET c == CallsNamed("place_order")[1]
                 IN /\ c.trading_pair = session_state.selected_market.trading_pair
                    /\ c.order_type = form.order_type
                    /\ c.trade_type = form.side
                    /\ c.amount = form.amount
                    /\ c.has_price <=> (form.order_type = "limit" /\ form.price # 0)
                    /\ c.has_price => c.price = form.price

C9_Witness ==
    /\ pc = "market" /\ pressed = "place"
    /\ form.order_type = "limit" /\ form.price = 0 /\ form.amount > 0
    /\ Count("place_order") = 1
    /\ ~CallsNamed("place_order")[1].has_price


SelectedMarket == session_state.selected_market

\* positions of the script inside show_trading_data, after its market fetch
InShow == {"positions", "orders", "history", "tab_balances", "tab_orders"}

MarketNonEmpty ==
    /\ SelectedMarket.connector \notin {None, ""}
    /\ SelectedMarket.trading_pair # ""

\* the market-data requests of this rerun are addressed to selected_market
MarketFetchIssued ==
    /\ Count("get_candles") = 1
    /\ CallsNamed("get_candles")[1] =
          CandlesCall(ExpectedCandlesConnector, SelectedMarket.trading_pair)
    /\ CallsNamed("get_prices") =
          <<PricesCall(SelectedMarket.connector, SelectedMarket.trading_pair)>>

\* C11: selected_market always holds a non-empty connector and a non-empty
\* trading pair: it starts as binance_perpetual / BTC-USDT and is
\* overwritten only, and always, by a rerun whose resolved connector and
\* trading-pair input are both non-empty; show_trading_data never shows
\* "Please select an account and trading pair" and every rerun that
\* reaches it issues the market-data requests for selected_market, also
\* when the rerun resolved no connector.
C11_SelectedMarketNonEmpty ==
    /\ SelectedMarket = [connector |-> "binance_perpetual", trading_pair |-> "BTC-USDT"]
    /\ [](/\ MarketNonEmpty
          /\ "Please select an account and trading pair" \notin notices
          /\ pc \in InShow => MarketFetchIssued)
    /\ [][session_state'.selected_market # session_state.selected_market =>
             /\ pc = "col_connector"
             /\ connector' \notin {None, ""} /\ trading_pair' # ""
             /\ session_state'.selected_market =
                   [connector |-> connector', trading_pair |-> trading_pair']]_vars
    /\ [][(pc = "col_connector" /\ connector' \notin {None, ""} /\ trading_pair' # "") =>
             session_state'.selected_market =
                [connector |-> connector', trading_pair |-> trading_pair']]_vars
    /\ [][pc = "market" =>
             /\ pc' = "positions"
             /\ calls' = calls \o
                   <<CandlesCall(ExpectedCandlesConnector, SelectedMarket.trading_pair),
                     PricesCall(SelectedMarket.connector, SelectedMarket.trading_pair)>>]_vars

\* a rerun that resolved no connector fetches the market chosen earlier
C11_Witness ==
    /\ pc = "positions"
    /\ "No credentials available" \in notices
    /\ SelectedMarket = [connector |-> "kucoin", trading_pair |-> "ETH-USDT"]
    /\ MarketFetchIssued
    /\ CallsNamed("get_prices")[1].connector_name = "kucoin"


\* list_accounts raised, or list_credentials raised for a listed account
AccountsFetchFailed ==
    \/ lastResp.la.raise
    \/ \E a \in Elems(lastResp.la.val) : lastResp.lc[a].raise

\* C12: get_accounts_and_credentials returns either the full account list
\* with a credentials map of exactly one entry per listed account, each
\* entry the answer of list_credentials for that account, or ([], {}); it
\* returns ([], {}) when list_accounts raises and when list_credentials
\* raises for any one account, and never a partial credentials map.
C12_AllOrNothing ==
    (lastResp.fetch = "accounts" /\ pc = "returned") =>
        /\ AccountsFetchFailed =>
              (accounts_list = <<>> /\ credentials_dict = EmptyCredentials)
        /\ ~AccountsFetchFailed =>
              /\ accounts_list = lastResp.la.val
              /\ DOMAIN credentials_dict = Elems(lastResp.la.val)
              /\ \A a \in Elems(lastResp.la.val) : credentials_dict[a] = lastResp.lc[a].val
        /\ \/ accounts_list = <<>> /\ credentials_dict = EmptyCredentials
           \/ accounts_list = lastResp.la.val
                 /\ DOMAIN credentials_dict = Elems(accounts_list)

\* the second of two accounts fails after the first one answered
C12_Witness ==
    /\ lastResp.fetch = "accounts" /\ pc = "returned"
    /\ ~lastResp.la.raise /\ lastResp.la.val = <<AccountName(1), AccountName(2)>>
    /\ ~lastResp.lc[AccountName(1)].raise /\ lastResp.lc[AccountName(1)].val # <<>>
    /\ lastResp.lc[AccountName(2)].raise
    /\ accounts_list = <<>> /\ credentials_dict = EmptyCredentials
    /\ calls = <<Call("list_accounts"), ListCredentialsCall(AccountName(1)),
                 ListCredentialsCall(AccountName(2))>>


\* the requests behind the four tables of show_trading_data
TableCalls == {"get_positions", "get_active_orders", "get_orders", "get_state"}

\* the requests that follow the trade section of the script
AfterTrade == TableCalls \cup {"get_candles", "get_prices"}

\* C13: in a rerun in which an order is placed the place_order request
\* precedes the market-data, get_positions, get_active_orders, get_orders
\* and get_state requests of that rerun, which are all made once the
\* script has run; cancel_order requests follow that rerun's table
\* requests and the next step is a new rerun with no button pressed.
\* A request is a synchronous call: it is answered within the step that
\* issues it.
C13_PlaceBeforeTables ==
    /\ [](\A i \in 1..Len(calls) :
             /\ calls[i].name = "place_order" =>
                   /\ \A j \in 1..(i - 1) : calls[j].name \notin AfterTrade
                   /\ pc \in {"idle", "rerun"} => \A n \in TableCalls : Count(n) = 1
             /\ calls[i].name = "cancel_order" =>
                   /\ \A j \in (i + 1)..Len(calls) : calls[j].name \notin TableCalls
                   /\ \A n \in TableCalls : Count(n) = 1
                   /\ pc = "rerun")
    /\ [][pc = "rerun" =>
             (pc' = "accounts" /\ pressed' = "none" /\ calls' = <<>>)]_vars
    /\ [][(pc = "trade" /\ Len(calls') > Len(calls)) =>
             /\ calls' = Append(calls, calls'[Len(calls')])
             /\ calls'[Len(calls')].name = "place_order"
             /\ \A n \in TableCalls : Count(n) = 0]_vars

\* a rerun that placed an order and then fetched and showed its tables
C13_Witness ==
    /\ pc = "idle" /\ pressed = "place"
    /\ Count("place_order") = 1
    /\ \E i \in 1..Len(calls) :
          /\ calls[i].name = "place_order"
          /\ calls[i + 1].name = "get_candles"
          /\ calls[i + 3].name = "get_positions"
          /\ calls[i + 4].name = "get_active_orders"
          /\ calls[i + 5].name = "get_orders"
          /\ calls[i + 6].name = "get_state"
    /\ shown.positions # <<>> /\ shown.orders # <<>>

=============================================================================
